---- MODULE Spec2Model ----
(***************************************************************************)
(* SimpleDataLoader (simple_data_loader/simple_data_loader.py): one loader *)
(* object, constructed over a path, and one call of load() on it.  The    *)
(* folder path of load() is modelled statement group by statement group:  *)
(* discovery, the per-file load loop of each branch, the empty-list       *)
(* checks, the column consistency check and the concatenation.            *)
(* pandas is the external reader: what read_csv / read_excel return for a *)
(* file is an input of the step that reads it.                            *)
(***************************************************************************)
EXTENDS Integers, Sequences, FiniteSets, TLC

VARIABLES
    fs,                  \* the directory tree under file_path, in listing order
    file_path,           \* self.file_path: what the path is on disk
    include_subfolders,  \* self.include_subfolders
    verbose,             \* self.verbose
    column_consistency,  \* self.column_consistency
    column_consistency_arg, \* __init__: the column_consistency parameter
    pc,                  \* position of the call
    files,               \* _load_folder: files
    data_files,          \* _load_folder: data_files
    pos,                 \* _load_folder: number of data_files the for loop has taken
    temp_dataframes,     \* _load_folder: temp_dataframes, (df, name) pairs
    dataframes,          \* _load_folder: dataframes
    file_count,          \* _load_folder: file_count
    combined_df,         \* the value load() returns
    exc,                 \* the exception that left load() or __init__, or NoExc
    exc_detail,          \* the composed message of the consistency ValueError
    out,                 \* what print() wrote
    warned,              \* what warnings.warn() was given
    trace                \* calls made to pandas and to _check_column_consistency

vars == <<fs, file_path, include_subfolders, verbose, column_consistency,
          column_consistency_arg, pc,
          files, data_files, pos, temp_dataframes, dataframes, file_count,
          combined_df, exc, exc_detail, out, warned, trace>>

(***************************************************************************)
(* Bounds of the model.                                                    *)
(***************************************************************************)
MaxFiles == 3      \* entries in the directory tree
MaxRows == 2       \* rows of one file

(***************************************************************************)
(* Inputs.                                                                 *)
(***************************************************************************)
\* Column-name sequences a file can have: same, reordered, other case, fewer.
Schemas == { <<"a", "b">>, <<"b", "a">>, <<"a", "B">>, <<"a">> }

\* What can sit in the tree: suffix as written, regular file or not, and
\* depth below the root (1 = direct child).
EntryKinds ==
    { [suffix |-> ".csv",  is_file |-> TRUE,  depth |-> 1],
      [suffix |-> ".XLSX", is_file |-> TRUE,  depth |-> 2],
      [suffix |-> ".txt",  is_file |-> TRUE,  depth |-> 1],
      [suffix |-> ".csv",  is_file |-> FALSE, depth |-> 1] }

\* Arguments given for column_consistency.
PolicyArgs == {"error", "warning", "ignore", "invalid"}

\* What the path can be on disk.
PathKinds == {"missing", "file", "dir", "other"}

\* Suffix of the path when it is a single file.
FileSuffixes == {".csv", ".XLSX", ".txt"}

SeqsUpTo(S, n) == UNION { [1..k -> S] : k \in 0..n }

\* A path of the tree: its name is its place in the listing.
PathOf(tree, i) ==
    [name |-> i, suffix |-> tree[i].suffix, is_file |-> tree[i].is_file,
     depth |-> tree[i].depth]

(***************************************************************************)
(* Values.                                                                 *)
(***************************************************************************)
NoExc == "None"
ExcInvalidConfig == "ValueError: column_consistency must be one of"
ExcNotFound == "FileNotFoundError: Path does not exist"
ExcInvalidPath == "ValueError: Path is neither a file nor a directory"
ExcUnsupported == "ValueError: Unsupported file format"
ExcNoSupported == "ValueError: No supported files (CSV, XLSX) found"
ExcNoLoadable == "ValueError: No files could be successfully loaded"
ExcMismatch == "ValueError: Column consistency issues found"
ExcReader == "pandas: reader error"

\* A cell read from row r, column c of file f; NaN is the cell of no file.
Cell(f, r, c) == [file |-> f, row |-> r, col |-> c]
NaN == [file |-> 0, row |-> 0, col |-> ""]

\* No DataFrame (None).
NoDF == [columns |-> <<>>, index |-> <<>>, rows |-> <<>>, none |-> TRUE]

Range(s) == { s[i] : i \in 1..Len(s) }

\* range(n) as a list: 0, 1, ..., n-1.
RangeIndex(n) == [i \in 1..n |-> i - 1]

\* The DataFrame pandas parses from file f with header cols and n data rows:
\* default RangeIndex, one value per column in every row.
ReadFrame(f, cols, n) ==
    [columns |-> cols,
     index |-> RangeIndex(n),
     rows |-> [r \in 1..n |-> [c \in Range(cols) |-> Cell(f, r - 1, c)]]]

\* What reading one supported file can give: a DataFrame, or an exception.
ReadOutcomes(f) ==
    { [ok |-> TRUE, df |-> ReadFrame(f, cols, n)] : cols \in Schemas, n \in 0..MaxRows }
    \cup { [ok |-> FALSE, df |-> NoDF] }


(***************************************************************************)
(* Pure functions.                                                         *)
(***************************************************************************)
\* The suffix as written, lower() left out.
Lower_Identity(s) == s

\* str.lower() on the suffixes the inputs use.
Lower(s) ==
    CASE s = ".XLSX" -> ".xlsx"
      [] s = ".XLS" -> ".xls"
      [] s = ".CSV" -> ".csv"
      [] OTHER -> s

supported_extensions == {".csv", ".xlsx", ".xls"}

\* The glob pattern chosen from include_subfolders.
Pattern(subfolders) == IF subfolders THEN "**/*" ELSE "*"

\* list(self.file_path.glob(pattern)): every entry for "**/*", the direct
\* children for "*", in listing order.
Glob(tree, pattern) ==
    SelectSeq([i \in 1..Len(tree) |-> PathOf(tree, i)],
              LAMBDA p : pattern = "**/*" \/ p.depth = 1)

\* The filter without the is_file() test.
FilterDataFiles_NoIsFile(fl) ==
    SelectSeq(fl, LAMBDA f : Lower(f.suffix) \in {".csv", ".xlsx", ".xls"})

\* [f for f in files if f.is_file() and f.suffix.lower() in supported_extensions]
FilterDataFiles(fl) ==
    SelectSeq(fl, LAMBDA f : f.is_file /\ Lower(f.suffix) \in supported_extensions)

\* The loop without the comparison of the column names.
RECURSIVE InconsistentFiles_CountOnly(_, _, _)
InconsistentFiles_CountOnly(temp, k, acc) ==
    IF k > Len(temp) THEN acc
    ELSE IF Len(temp[k][1].columns) # Len(temp[1][1].columns)
    THEN InconsistentFiles_CountOnly(temp, k + 1, Append(acc,
           [file |-> temp[k][2],
            issue |-> <<"Column count mismatch", Len(temp[k][1].columns),
                        Len(temp[1][1].columns)>>,
            columns |-> temp[k][1].columns]))
    ELSE InconsistentFiles_CountOnly(temp, k + 1, acc)

\* The loop comparing every file with the one before it.
RECURSIVE InconsistentFiles_Previous(_, _, _)
InconsistentFiles_Previous(temp, k, acc) ==
    IF k > Len(temp) THEN acc
    ELSE LET previous_columns == temp[k - 1][1].columns
             current_columns == temp[k][1].columns
         IN  IF Len(current_columns) # Len(previous_columns)
             THEN InconsistentFiles_Previous(temp, k + 1, Append(acc,
                    [file |-> temp[k][2],
                     issue |-> <<"Column count mismatch", Len(current_columns),
                                 Len(previous_columns)>>,
                     columns |-> current_columns]))
             ELSE IF current_columns # previous_columns
             THEN InconsistentFiles_Previous(temp, k + 1, Append(acc,
                    [file |-> temp[k][2],
                     issue |-> <<"Column names mismatch">>,
                     columns |-> current_columns,
                     expected |-> previous_columns]))
             ELSE InconsistentFiles_Previous(temp, k + 1, acc)

\* The loop without the continue after a count mismatch.
RECURSIVE InconsistentFiles_NoContinue(_, _, _)
InconsistentFiles_NoContinue(temp, k, acc) ==
    IF k > Len(temp) THEN acc
    ELSE LET first_columns == temp[1][1].columns
             current_columns == temp[k][1].columns
             counted == IF Len(current_columns) # Len(first_columns)
                        THEN Append(acc,
                               [file |-> temp[k][2],
                                issue |-> <<"Column count mismatch",
                                            Len(current_columns), Len(first_columns)>>,
                                columns |-> current_columns])
                        ELSE acc
         IN  IF current_columns # first_columns
             THEN InconsistentFiles_NoContinue(temp, k + 1, Append(counted,
                    [file |-> temp[k][2],
                     issue |-> <<"Column names mismatch">>,
                     columns |-> current_columns,
                     expected |-> first_columns]))
             ELSE InconsistentFiles_NoContinue(temp, k + 1, counted)

\* The loop of _check_column_consistency over temp_dataframes[1:]: the list
\* inconsistent_files after entries k.. have been compared with the first.
RECURSIVE InconsistentFiles(_, _, _)
InconsistentFiles(temp, k, acc) ==
    IF k > Len(temp) THEN acc
    ELSE LET first_columns == temp[1][1].columns
             first_column_count == Len(first_columns)
             current_columns == temp[k][1].columns
             current_column_count == Len(current_columns)
             filename == temp[k][2]
         IN  IF current_column_count # first_column_count
             THEN InconsistentFiles(temp, k + 1, Append(acc,
                    [file |-> filename,
                     issue |-> <<"Column count mismatch", current_column_count,
                                 first_column_count>>,
                     columns |-> current_columns]))
             ELSE IF current_columns # first_columns
             THEN InconsistentFiles(temp, k + 1, Append(acc,
                    [file |-> filename,
                     issue |-> <<"Column names mismatch">>,
                     columns |-> current_columns,
                     expected |-> first_columns]))
             ELSE InconsistentFiles(temp, k + 1, acc)

\* inconsistent_files as _check_column_consistency builds it; the early
\* return for fewer than two entries leaves nothing to report.
CheckIssues(temp) ==
    IF Len(temp) < 2 THEN <<>> ELSE InconsistentFiles(temp, 2, <<>>)

\* One issue as the error message renders it: file, issue, the expected
\* columns when the issue has them, the actual columns.
RenderIssue(issue) ==
    IF "expected" \in DOMAIN issue
    THEN [file |-> issue.file, issue |-> issue.issue,
          expected_columns |-> issue.expected, actual_columns |-> issue.columns]
    ELSE [file |-> issue.file, issue |-> issue.issue,
          actual_columns |-> issue.columns]

\* error_message: the reference file and its columns, then every issue.
ErrorMessage(temp, issues) ==
    [reference_file |-> temp[1][2],
     reference_columns |-> temp[1][1].columns,
     issues |-> [k \in 1..Len(issues) |-> RenderIssue(issues[k])]]

NoMessage == [reference_file |-> 0, reference_columns |-> <<>>, issues |-> <<>>]

\* join="inner": the columns every frame has, in the first frame's order.
ConcatColumns_Inner(dfs) ==
    IF dfs = <<>> THEN <<>>
    ELSE SelectSeq(dfs[1].columns,
                   LAMBDA c : \A k \in 1..Len(dfs) : c \in Range(dfs[k].columns))

\* The union with the later frames' columns put first.
RECURSIVE ConcatColumns_LastFirst(_)
ConcatColumns_LastFirst(dfs) ==
    IF dfs = <<>> THEN <<>>
    ELSE LET before == ConcatColumns_LastFirst(SubSeq(dfs, 1, Len(dfs) - 1))
             last == dfs[Len(dfs)].columns
         IN  last \o SelectSeq(before, LAMBDA c : c \notin Range(last))

\* Every frame's columns one after the other, repeated names kept.
RECURSIVE ConcatColumns_NoDedup(_)
ConcatColumns_NoDedup(dfs) ==
    IF dfs = <<>> THEN <<>>
    ELSE ConcatColumns_NoDedup(SubSeq(dfs, 1, Len(dfs) - 1)) \o dfs[Len(dfs)].columns

\* pd.concat, the columns: the union of the frames' columns in order of
\* first appearance.
RECURSIVE ConcatColumns(_)
ConcatColumns(dfs) ==
    IF dfs = <<>> THEN <<>>
    ELSE LET before == ConcatColumns(SubSeq(dfs, 1, Len(dfs) - 1))
             last == dfs[Len(dfs)].columns
         IN  before \o SelectSeq(last, LAMBDA c : c \notin Range(before))

\* One row laid out on the columns cols; NaN where the row has no such column.
Reindex(row, cols) ==
    [c \in Range(cols) |-> IF c \in DOMAIN row THEN row[c] ELSE NaN]

\* The rows of dataframes[1:] only.
RECURSIVE ConcatRows_SkipFirst(_, _)
ConcatRows_SkipFirst(dfs, cols) ==
    IF Len(dfs) <= 1 THEN <<>>
    ELSE LET df == dfs[Len(dfs)]
         IN  ConcatRows_SkipFirst(SubSeq(dfs, 1, Len(dfs) - 1), cols)
             \o [r \in 1..Len(df.rows) |-> [c \in Range(cols) |->
                   IF c \in DOMAIN df.rows[r] THEN df.rows[r][c] ELSE NaN]]

\* pd.concat, the rows: every frame's rows, frame after frame.
RECURSIVE ConcatRows(_, _)
ConcatRows(dfs, cols) ==
    IF dfs = <<>> THEN <<>>
    ELSE LET df == dfs[Len(dfs)]
         IN  ConcatRows(SubSeq(dfs, 1, Len(dfs) - 1), cols)
             \o [r \in 1..Len(df.rows) |-> Reindex(df.rows[r], cols)]

\* The row labels when the frames' own labels are kept.
RECURSIVE ConcatIndex(_)
ConcatIndex(dfs) ==
    IF dfs = <<>> THEN <<>>
    ELSE ConcatIndex(SubSeq(dfs, 1, Len(dfs) - 1)) \o dfs[Len(dfs)].index

\* pd.concat(dataframes): ignore_index left at False.
Concat_KeepIndex(dfs) ==
    [columns |-> ConcatColumns(dfs),
     index |-> ConcatIndex(dfs),
     rows |-> ConcatRows(dfs, ConcatColumns(dfs))]

\* pd.concat(dataframes, ignore_index=True)
Concat(dfs) ==
    LET cols == ConcatColumns(dfs)
        rows == ConcatRows(dfs, cols)
    IN  [columns |-> cols, index |-> RangeIndex(Len(rows)), rows |-> rows]

\* What print is given: a text and the numbers formatted into it.
Msg(text, a, b, c) == <<text, a, b, c>>

\* print(...) without the "if self.verbose".
Say_Always(cond, m) == Append(out, m)

\* print(...) under "if self.verbose".
Say(cond, m) == IF cond THEN Append(out, m) ELSE out


\* One call recorded in trace: the operation, the file it was given, whether
\* it returned, and the DataFrame a read returned.
Event(op, name, ok, df) == [op |-> op, file |-> name, ok |-> ok, df |-> df]

\* _load_single_file_from_path / _load_single_file, up to the print: the
\* reader is chosen by the lowered suffix; any other suffix raises.
LoadOutcomes(name, suffix) ==
    IF Lower(suffix) = ".csv" THEN ReadOutcomes(name)
    ELSE IF Lower(suffix) \in {".xlsx", ".xls"} THEN ReadOutcomes(name)
    ELSE { [ok |-> FALSE, df |-> NoDF] }

\* "<name> is imported with R rows and C columns"
ImportedMsg(name, df) == Msg("is imported with", name, Len(df.rows), Len(df.columns))

(***************************************************************************)
(* The state before the constructor runs.                                  *)
(***************************************************************************)
Init ==
    /\ file_path \in
         { [kind |-> k, suffix |-> ""] : k \in PathKinds \ {"file"} }
         \cup { [kind |-> "file", suffix |-> sf] : sf \in FileSuffixes }
    /\ fs \in SeqsUpTo(EntryKinds, MaxFiles)
    /\ file_path.kind # "dir" => fs = <<>>
    /\ include_subfolders = FALSE
    /\ verbose = FALSE
    /\ column_consistency = "unset"
    /\ column_consistency_arg = "unset"
    /\ pc = "new"
    /\ files = <<>>
    /\ data_files = <<>>
    /\ pos = 0
    /\ temp_dataframes = <<>>
    /\ dataframes = <<>>
    /\ file_count = 0
    /\ combined_df = NoDF
    /\ exc = NoExc
    /\ exc_detail = NoMessage
    /\ out = <<>>
    /\ warned = <<>>
    /\ trace = <<>>

\* __init__ without the check of column_consistency.
Construct_NoValidate ==
    /\ pc = "new"
    /\ \E subfolders \in BOOLEAN, vb \in BOOLEAN, policy \in PolicyArgs :
         /\ column_consistency_arg' = policy
         /\ include_subfolders' = subfolders
         /\ verbose' = vb
         /\ column_consistency' = policy
         /\ pc' = "constructed"
    /\ UNCHANGED <<fs, file_path, files, data_files, pos, temp_dataframes,
                   dataframes, file_count, combined_df, exc, exc_detail, out,
                   warned, trace>>

(***************************************************************************)
(* SimpleDataLoader.__init__                                               *)
(***************************************************************************)
Construct ==
    /\ pc = "new"
    /\ \E subfolders \in BOOLEAN, vb \in BOOLEAN, policy \in PolicyArgs :
         /\ column_consistency_arg' = policy
         /\ include_subfolders' = subfolders
         /\ verbose' = vb
         /\ IF policy \notin {"error", "warning", "ignore"}
            THEN /\ exc' = ExcInvalidConfig
                 /\ pc' = "failed"
                 /\ UNCHANGED column_consistency
            ELSE /\ column_consistency' = policy
                 /\ pc' = "constructed"
                 /\ UNCHANGED exc
    /\ UNCHANGED <<fs, file_path, files, data_files, pos, temp_dataframes,
                   dataframes, file_count, combined_df, exc_detail, out,
                   warned, trace>>

\* load() without the exists() check: a missing path falls through to the
\* final else.
Load_NoExistsCheck ==
    /\ pc = "constructed"
    /\ IF file_path.kind = "file"
       THEN pc' = "single" /\ UNCHANGED exc
       ELSE IF file_path.kind = "dir"
       THEN pc' = "folder" /\ UNCHANGED exc
       ELSE exc' = ExcInvalidPath /\ pc' = "failed"
    /\ UNCHANGED <<fs, file_path, column_consistency_arg, include_subfolders,
                   verbose, column_consistency, files, data_files, pos,
                   temp_dataframes, dataframes, file_count, combined_df,
                   exc_detail, out, warned, trace>>

(***************************************************************************)
(* SimpleDataLoader.load: the path is classified.                          *)
(***************************************************************************)
Load ==
    /\ pc = "constructed"
    /\ IF file_path.kind = "missing"
       THEN exc' = ExcNotFound /\ pc' = "failed"
       ELSE IF file_path.kind = "file"
       THEN pc' = "single" /\ UNCHANGED exc
       ELSE IF file_path.kind = "dir"
       THEN pc' = "folder" /\ UNCHANGED exc
       ELSE exc' = ExcInvalidPath /\ pc' = "failed"
    /\ UNCHANGED <<fs, file_path, column_consistency_arg, include_subfolders, verbose,
                   column_consistency, files, data_files, pos,
                   temp_dataframes, dataframes, file_count, combined_df,
                   exc_detail, out, warned, trace>>

(***************************************************************************)
(* SimpleDataLoader._load_single_file                                      *)
(***************************************************************************)
LoadSingleFile ==
    /\ pc = "single"
    /\ \E o \in LoadOutcomes(0, file_path.suffix) :
         /\ trace' = Append(trace, Event("read", 0, o.ok, o.df))
         /\ IF o.ok
            THEN /\ combined_df' = o.df
                 /\ out' = Say(verbose, ImportedMsg(0, o.df))
                 /\ pc' = "returned"
                 /\ UNCHANGED exc
            ELSE /\ exc' = IF Lower(file_path.suffix) \in supported_extensions
                           THEN ExcReader ELSE ExcUnsupported
                 /\ pc' = "failed"
                 /\ UNCHANGED <<combined_df, out>>
    /\ UNCHANGED <<fs, file_path, column_consistency_arg, include_subfolders, verbose,
                   column_consistency, files, data_files, pos,
                   temp_dataframes, dataframes, file_count, exc_detail, warned>>

(***************************************************************************)
(* SimpleDataLoader._load_folder: glob, filter, the empty check, and the  *)
(* choice of branch.                                                       *)
(***************************************************************************)
Discover ==
    /\ pc = "folder"
    /\ LET fl == Glob(fs, Pattern(include_subfolders))
           df == FilterDataFiles(fl)
       IN  /\ files' = fl
           /\ data_files' = df
           /\ IF df = <<>>
              THEN /\ exc' = ExcNoSupported
                   /\ pc' = "failed"
                   /\ UNCHANGED out
              ELSE /\ UNCHANGED exc
                   /\ IF column_consistency = "ignore"
                      THEN /\ out' = IF verbose
                                     THEN out \o << Msg("Found files to process", Len(df), 0, 0),
                                                    Msg("Column consistency check is skipped", 0, 0, 0) >>
                                     ELSE out
                           /\ pc' = "loop_ignore"
                      ELSE /\ out' = Say(verbose, Msg("Found files to process", Len(df), 0, 0))
                           /\ pc' = "loop_check"
    /\ UNCHANGED <<fs, file_path, column_consistency_arg, include_subfolders, verbose,
                   column_consistency, pos, temp_dataframes, dataframes,
                   file_count, combined_df, exc_detail, warned, trace>>

(***************************************************************************)
(* _load_folder, 'ignore' branch: one turn of the for loop.                *)
(***************************************************************************)
LoadIgnoreStep ==
    /\ pc = "loop_ignore"
    /\ pos < Len(data_files)
    /\ LET f == data_files[pos + 1]
       IN  \E o \in LoadOutcomes(f.name, f.suffix) :
             /\ trace' = Append(trace, Event("read", f.name, o.ok, o.df))
             /\ IF o.ok
                THEN /\ dataframes' = Append(dataframes, o.df)
                     /\ file_count' = file_count + 1
                     /\ out' = Say(verbose, ImportedMsg(f.name, o.df))
                ELSE /\ out' = Say(verbose, Msg("Error loading", f.name, 0, 0))
                     /\ UNCHANGED <<dataframes, file_count>>
    /\ pos' = pos + 1
    /\ UNCHANGED <<fs, file_path, column_consistency_arg, include_subfolders, verbose,
                   column_consistency, pc, files, data_files,
                   temp_dataframes, combined_df, exc, exc_detail, warned>>

\* 'ignore' branch, after the loop: nothing loaded raises.
IgnoreLoaded ==
    /\ pc = "loop_ignore"
    /\ pos = Len(data_files)
    /\ IF dataframes = <<>>
       THEN exc' = ExcNoLoadable /\ pc' = "failed"
       ELSE pc' = "concat" /\ UNCHANGED exc
    /\ UNCHANGED <<fs, file_path, column_consistency_arg, include_subfolders, verbose,
                   column_consistency, files, data_files, pos,
                   temp_dataframes, dataframes, file_count, combined_df,
                   exc_detail, out, warned, trace>>

\* The first pass with break in place of continue: a failed read ends it.
LoadTempStep_Break ==
    /\ pc = "loop_check"
    /\ pos < Len(data_files)
    /\ LET f == data_files[pos + 1]
       IN  \E o \in LoadOutcomes(f.name, f.suffix) :
             /\ trace' = Append(trace, Event("read", f.name, o.ok, o.df))
             /\ IF o.ok
                THEN /\ temp_dataframes' = Append(temp_dataframes, <<o.df, f.name>>)
                     /\ out' = Say(verbose, ImportedMsg(f.name, o.df))
                     /\ pos' = pos + 1
                ELSE /\ out' = Say(verbose, Msg("Error loading", f.name, 0, 0))
                     /\ pos' = Len(data_files)
                     /\ UNCHANGED temp_dataframes
    /\ UNCHANGED <<fs, file_path, column_consistency_arg, include_subfolders, verbose,
                   column_consistency, pc, files, data_files, dataframes,
                   file_count, combined_df, exc, exc_detail, warned>>

\* The first pass ending at the first frame whose columns differ from the
\* first loaded frame's.
LoadTempStep_StopOnMismatch ==
    /\ pc = "loop_check"
    /\ pos < Len(data_files)
    /\ LET f == data_files[pos + 1]
       IN  \E o \in LoadOutcomes(f.name, f.suffix) :
             /\ trace' = Append(trace, Event("read", f.name, o.ok, o.df))
             /\ IF o.ok
                THEN /\ temp_dataframes' = Append(temp_dataframes, <<o.df, f.name>>)
                     /\ out' = Say(verbose, ImportedMsg(f.name, o.df))
                     /\ pos' = IF /\ temp_dataframes # <<>>
                                  /\ o.df.columns # temp_dataframes[1][1].columns
                               THEN Len(data_files) ELSE pos + 1
                ELSE /\ out' = Say(verbose, Msg("Error loading", f.name, 0, 0))
                     /\ pos' = pos + 1
                     /\ UNCHANGED temp_dataframes
    /\ UNCHANGED <<fs, file_path, column_consistency_arg, include_subfolders, verbose,
                   column_consistency, pc, files, data_files, dataframes,
                   file_count, combined_df, exc, exc_detail, warned>>

(***************************************************************************)
(* _load_folder, 'error' / 'warning' branch: one turn of the first pass.   *)
(***************************************************************************)
LoadTempStep ==
    /\ pc = "loop_check"
    /\ pos < Len(data_files)
    /\ LET f == data_files[pos + 1]
       IN  \E o \in LoadOutcomes(f.name, f.suffix) :
             /\ trace' = Append(trace, Event("read", f.name, o.ok, o.df))
             /\ IF o.ok
                THEN /\ temp_dataframes' = Append(temp_dataframes, <<o.df, f.name>>)
                     /\ out' = Say(verbose, ImportedMsg(f.name, o.df))
                ELSE /\ out' = Say(verbose, Msg("Error loading", f.name, 0, 0))
                     /\ UNCHANGED temp_dataframes
    /\ pos' = pos + 1
    /\ UNCHANGED <<fs, file_path, column_consistency_arg, include_subfolders, verbose,
                   column_consistency, pc, files, data_files, dataframes,
                   file_count, combined_df, exc, exc_detail, warned>>

\* After the first pass, without the "if not temp_dataframes" check.
TempLoaded_NoRaise ==
    /\ pc = "loop_check"
    /\ pos = Len(data_files)
    /\ pc' = "check"
    /\ UNCHANGED <<fs, file_path, column_consistency_arg, include_subfolders, verbose,
                   column_consistency, files, data_files, pos,
                   temp_dataframes, dataframes, file_count, combined_df,
                   exc, exc_detail, out, warned, trace>>

\* 'error' / 'warning' branch, after the first pass: nothing loaded raises.
TempLoaded ==
    /\ pc = "loop_check"
    /\ pos = Len(data_files)
    /\ IF temp_dataframes = <<>>
       THEN exc' = ExcNoLoadable /\ pc' = "failed"
       ELSE pc' = "check" /\ UNCHANGED exc
    /\ UNCHANGED <<fs, file_path, column_consistency_arg, include_subfolders, verbose,
                   column_consistency, files, data_files, pos,
                   temp_dataframes, dataframes, file_count, combined_df,
                   exc_detail, out, warned, trace>>

\* The check, with dataframes taken from temp_dataframes[1:].
CheckColumnConsistency_SkipReference ==
    /\ pc = "check"
    /\ trace' = Append(trace, Event("check", 0, TRUE, NoDF))
    /\ LET inconsistent_files == CheckIssues(temp_dataframes)
           error_message == ErrorMessage(temp_dataframes, inconsistent_files)
       IN  IF inconsistent_files # <<>> /\ column_consistency = "error"
           THEN /\ exc' = ExcMismatch
                /\ exc_detail' = error_message
                /\ pc' = "failed"
                /\ UNCHANGED <<dataframes, file_count, out, warned>>
           ELSE /\ IF inconsistent_files # <<>> /\ column_consistency = "warning"
                   THEN /\ warned' = Append(warned, error_message)
                        /\ out' = Say(verbose, Msg("WARNING: Column consistency issues detected but continuing...", 0, 0, 0))
                   ELSE UNCHANGED <<warned, out>>
                /\ dataframes' = [k \in 1..(Len(temp_dataframes) - 1) |->
                                    temp_dataframes[k + 1][1]]
                /\ file_count' = Len(temp_dataframes) - 1
                /\ pc' = "concat"
                /\ UNCHANGED <<exc, exc_detail>>
    /\ UNCHANGED <<fs, file_path, column_consistency_arg, include_subfolders, verbose,
                   column_consistency, files, data_files, pos,
                   temp_dataframes, combined_df>>

(***************************************************************************)
(* self._check_column_consistency(temp_dataframes), and on its return the  *)
(* assignments of dataframes and file_count.                               *)
(***************************************************************************)
CheckColumnConsistency ==
    /\ pc = "check"
    /\ trace' = Append(trace, Event("check", 0, TRUE, NoDF))
    /\ LET inconsistent_files == CheckIssues(temp_dataframes)
           error_message == ErrorMessage(temp_dataframes, inconsistent_files)
       IN  IF inconsistent_files # <<>> /\ column_consistency = "error"
           THEN /\ exc' = ExcMismatch
                /\ exc_detail' = error_message
                /\ pc' = "failed"
                /\ UNCHANGED <<dataframes, file_count, out, warned>>
           ELSE /\ IF inconsistent_files # <<>> /\ column_consistency = "warning"
                   THEN /\ warned' = Append(warned, error_message)
                        /\ out' = Say(verbose, Msg("WARNING: Column consistency issues detected but continuing...", 0, 0, 0))
                   ELSE UNCHANGED <<warned, out>>
                /\ dataframes' = [k \in 1..Len(temp_dataframes) |-> temp_dataframes[k][1]]
                /\ file_count' = Len(temp_dataframes)
                /\ pc' = "concat"
                /\ UNCHANGED <<exc, exc_detail>>
    /\ UNCHANGED <<fs, file_path, column_consistency_arg, include_subfolders, verbose,
                   column_consistency, files, data_files, pos,
                   temp_dataframes, combined_df>>

(***************************************************************************)
(* _load_folder: pd.concat, the summary, the return.                       *)
(***************************************************************************)
Concatenate ==
    /\ pc = "concat"
    /\ trace' = Append(trace, Event("concat", 0, TRUE, NoDF))
    /\ LET df == Concat(dataframes)
       IN  /\ combined_df' = df
           /\ out' = IF verbose
                     THEN out \o << Msg("Summary:", 0, 0, 0),
                                    Msg("Successfully loaded files", file_count, 0, 0),
                                    Msg("Combined dataset has rows and columns",
                                        Len(df.rows), Len(df.columns), 0) >>
                     ELSE out
    /\ pc' = "returned"
    /\ UNCHANGED <<fs, file_path, column_consistency_arg, include_subfolders, verbose,
                   column_consistency, files, data_files, pos,
                   temp_dataframes, dataframes, file_count, exc, exc_detail,
                   warned>>

Next ==
    \/ Construct
    \/ Load
    \/ LoadSingleFile
    \/ Discover
    \/ LoadIgnoreStep
    \/ IgnoreLoaded
    \/ LoadTempStep
    \/ TempLoaded
    \/ CheckColumnConsistency
    \/ Concatenate

Spec == Init /\ [][Next]_vars


(***************************************************************************)
(* What a call was given and what it did, read off the calls in trace.     *)
(***************************************************************************)
\* The reads of data files, in the order they were made.
Reads == SelectSeq(trace, LAMBDA e : e.op = "read")

\* The reads that returned a DataFrame.
Loaded == SelectSeq(trace, LAMBDA e : e.op = "read" /\ e.ok)

Called(op) == \E i \in 1..Len(trace) : trace[i].op = op

\* load() has entered _load_folder / the call has ended.
FolderLoad ==
    /\ file_path.kind = "dir"
    /\ pc \notin {"new", "constructed"}
    /\ exc # ExcInvalidConfig
Finished == pc \in {"returned", "failed"}

\* The loaded files do not all have the same ordered column names.
Mismatched ==
    \E i, j \in 1..Len(Loaded) : Loaded[i].df.columns # Loaded[j].df.columns

RECURSIVE SumRows(_)
SumRows(evs) ==
    IF evs = <<>> THEN 0 ELSE Len(Head(evs).df.rows) + SumRows(Tail(evs))

(***************************************************************************)
(* C1: under 'error', a folder load whose loaded files do not all have the *)
(* same ordered column names never reaches pd.concat and, once it has      *)
(* ended, has raised the "Column consistency issues found" ValueError; a   *)
(* table is returned under 'error' only when no loaded file differs.       *)
(***************************************************************************)
C1_ErrorGate ==
    (FolderLoad /\ column_consistency = "error") =>
        /\ Mismatched =>
             /\ ~Called("concat")
             /\ pc \notin {"concat", "returned"}
             /\ Finished => exc = ExcMismatch
        /\ pc \in {"concat", "returned"} => ~Mismatched
        /\ exc = ExcMismatch => Mismatched /\ Called("check")

C1_Witness ==
    /\ FolderLoad /\ column_consistency = "error"
    /\ Mismatched
    /\ pc = "failed" /\ exc = ExcMismatch
    /\ Len(Loaded) = 3


(***************************************************************************)
(* C2, as stated: every folder load that found at least one supported file *)
(* ends returning a table whose row count is the sum of the loaded files'  *)
(* row counts.                                                             *)
(***************************************************************************)
C2_Original ==
    (FolderLoad /\ Finished /\ data_files # <<>>) =>
        /\ pc = "returned"
        /\ Len(combined_df.rows) = SumRows(Loaded)

(***************************************************************************)
(* C2, amended: every table a folder load returns has as many rows as the  *)
(* loaded files have together.                                             *)
(***************************************************************************)
C2_RowCount ==
    (FolderLoad /\ pc = "returned") =>
        /\ data_files # <<>>
        /\ Len(combined_df.rows) = SumRows(Loaded)

C2_Witness ==
    /\ FolderLoad /\ pc = "returned"
    /\ Len(Loaded) = 2 /\ Len(Reads) = 3
    /\ Len(Loaded[1].df.rows) = 1 /\ Len(Loaded[2].df.rows) = 2
    /\ Len(combined_df.rows) = 3

(***************************************************************************)
(* C3: with mismatched loaded files, a folder load under 'warning' and one *)
(* under 'ignore' both end returning a table, never raising; the table has *)
(* as many rows as the loaded files together and as many columns as there  *)
(* are distinct column names among them, so the two runs on one input      *)
(* agree in shape; warnings.warn and the WARNING print happen under        *)
(* 'warning' and never under 'ignore'.                                     *)
(***************************************************************************)
UnionNames == UNION { Range(Loaded[i].df.columns) : i \in 1..Len(Loaded) }

IsWarningPrint(m) ==
    m[1] = "WARNING: Column consistency issues detected but continuing..."

C3_WarningIgnoreShape ==
    (FolderLoad /\ Finished /\ Mismatched
     /\ column_consistency \in {"warning", "ignore"}) =>
        /\ pc = "returned" /\ exc = NoExc
        /\ Len(combined_df.rows) = SumRows(Loaded)
        /\ Len(combined_df.columns) = Cardinality(UnionNames)
        /\ column_consistency = "warning" => Len(warned) = 1
        /\ column_consistency = "ignore" =>
             /\ warned = <<>>
             /\ \A i \in 1..Len(out) : ~IsWarningPrint(out[i])

C3_Witness ==
    /\ FolderLoad /\ pc = "returned" /\ Mismatched
    /\ column_consistency = "warning"
    /\ Len(warned) = 1
    /\ Len(combined_df.columns) = 3

(***************************************************************************)
(* C4: the table a folder load returns has exactly the column names of the *)
(* loaded files, each once, ordered by first appearance (first by file in  *)
(* discovery order, then by place in that file); its rows are the files'   *)
(* rows, file after file and in each file's own order; a row holds NaN in  *)
(* every column its file lacks.                                            *)
(***************************************************************************)
ColumnsOf(k) == Loaded[k].df.columns

FirstFile(c) ==
    CHOOSE k \in 1..Len(Loaded) :
        /\ c \in Range(ColumnsOf(k))
        /\ \A j \in 1..(k - 1) : c \notin Range(ColumnsOf(j))

PlaceIn(c, cols) == CHOOSE q \in 1..Len(cols) : cols[q] = c

AppearsBefore(c, d) ==
    \/ FirstFile(c) < FirstFile(d)
    \/ /\ FirstFile(c) = FirstFile(d)
       /\ PlaceIn(c, ColumnsOf(FirstFile(c))) < PlaceIn(d, ColumnsOf(FirstFile(d)))

\* Rows of the loaded files before the k-th.
Offset(k) == SumRows(SubSeq(Loaded, 1, k - 1))

C4_UnionLayout ==
    (FolderLoad /\ pc = "returned") =>
        LET cols == combined_df.columns
            rows == combined_df.rows
        IN  /\ Range(cols) = UnionNames
            /\ \A q, r \in 1..Len(cols) : q < r => AppearsBefore(cols[q], cols[r])
            /\ Len(rows) = SumRows(Loaded)
            /\ \A k \in 1..Len(Loaded) :
                 \A r \in 1..Len(Loaded[k].df.rows) :
                    /\ DOMAIN rows[Offset(k) + r] = Range(cols)
                    /\ \A c \in Range(cols) :
                         rows[Offset(k) + r][c] =
                            IF c \in Range(ColumnsOf(k))
                            THEN Cell(Loaded[k].file, r - 1, c)
                            ELSE NaN

C4_Witness ==
    /\ FolderLoad /\ pc = "returned"
    /\ Len(Loaded) = 2
    /\ ColumnsOf(1) = <<"a">> /\ ColumnsOf(2) = <<"b", "a">>
    /\ Len(Loaded[1].df.rows) = 2 /\ Len(Loaded[2].df.rows) = 1
    /\ combined_df.columns = <<"a", "b">>
    /\ combined_df.rows[2]["b"] = NaN

(***************************************************************************)
(* C5: the row index of the table a folder load returns is 0, 1, ..., n-1, *)
(* n being its number of rows.                                             *)
(***************************************************************************)
C5_DenseIndex ==
    (FolderLoad /\ pc = "returned") =>
        /\ Len(combined_df.index) = Len(combined_df.rows)
        /\ \A i \in 1..Len(combined_df.index) : combined_df.index[i] = i - 1

C5_Witness ==
    /\ FolderLoad /\ pc = "returned"
    /\ Len(Loaded) = 3
    /\ \A k \in 1..3 : Len(Loaded[k].df.rows) = 2
    /\ combined_df.index = <<0, 1, 2, 3, 4, 5>>


(***************************************************************************)
(* The supported files of the tree, told from the tree alone.             *)
(***************************************************************************)
SupportedSuffix(sfx) ==
    sfx \in {".csv", ".CSV", ".xlsx", ".XLSX", ".xls", ".XLS"}

\* Places in the tree of the files a load with this loader's setting finds.
Discoverable ==
    { i \in 1..Len(fs) :
        /\ fs[i].is_file
        /\ SupportedSuffix(fs[i].suffix)
        /\ (include_subfolders \/ fs[i].depth = 1) }

\* The loops are over: every data file has had its turn.
PastLoops == pc \in {"check", "concat", "returned"} \/ (pc = "failed" /\ exc # ExcNoSupported)

(***************************************************************************)
(* C6: in a folder load, under any policy, a read that fails is not what   *)
(* the call raises; the reads made are those of the first pos data files,  *)
(* once each and in discovery order, and all data files have been read     *)
(* when the loop is left; the frames handed to the consistency check and   *)
(* to pd.concat are exactly the frames the reads returned, in that order.  *)
(***************************************************************************)
C6_SkipFailedLoads ==
    FolderLoad =>
        /\ exc \notin {ExcReader, ExcUnsupported}
        /\ Len(Reads) = pos
        /\ \A i \in 1..Len(Reads) : Reads[i].file = data_files[i].name
        /\ PastLoops => pos = Len(data_files)
        /\ pc = "check" =>
             temp_dataframes = [k \in 1..Len(Loaded) |-> <<Loaded[k].df, Loaded[k].file>>]
        /\ pc \in {"concat", "returned"} =>
             dataframes = [k \in 1..Len(Loaded) |-> Loaded[k].df]

C6_Witness ==
    /\ FolderLoad /\ pc = "returned"
    /\ Len(Reads) = 3
    /\ ~Reads[1].ok /\ Reads[2].ok /\ ~Reads[3].ok
    /\ Len(dataframes) = 1

(***************************************************************************)
(* C7: a folder load that has ended raised "No files could be successfully *)
(* loaded" exactly when the tree has a supported file in reach and every   *)
(* read failed, whatever the policy; and when it raised it, neither the    *)
(* consistency check nor pd.concat had been called.                        *)
(***************************************************************************)
C7_NoLoadableFiles ==
    (FolderLoad /\ Finished) =>
        /\ exc = ExcNoLoadable <=>
             /\ Discoverable # {}
             /\ Len(Reads) = Cardinality(Discoverable)
             /\ \A i \in 1..Len(Reads) : ~Reads[i].ok
        /\ exc = ExcNoLoadable => ~Called("check") /\ ~Called("concat")

C7_Witness ==
    /\ FolderLoad /\ pc = "failed" /\ exc = ExcNoLoadable
    /\ column_consistency = "warning"
    /\ Len(Reads) = 2

(***************************************************************************)
(* C8: a folder load over a tree with no supported file in reach raises    *)
(* "No supported files", under every policy and either subfolder setting,  *)
(* without having read a file or called the consistency check.             *)
(***************************************************************************)
C8_NoSupportedFiles ==
    (FolderLoad /\ pc # "folder" /\ Discoverable = {}) =>
        /\ pc = "failed" /\ exc = ExcNoSupported
        /\ trace = <<>>
        /\ temp_dataframes = <<>> /\ dataframes = <<>>

C8_Witness ==
    /\ FolderLoad /\ pc = "failed" /\ exc = ExcNoSupported
    /\ Len(fs) = 3
    /\ \E i \in 1..3 : ~fs[i].is_file
    /\ \E i \in 1..3 : fs[i].depth = 2
    /\ ~include_subfolders

(***************************************************************************)
(* C9: whenever the consistency check composed its message (raised under   *)
(* 'error', warned under 'warning'), the reference file it names is the    *)
(* first file whose read returned, the reference columns and the expected  *)
(* columns of every issue are that file's columns, and no file whose read  *)
(* failed is the reference or has an issue.                                *)
(***************************************************************************)
\* The messages the consistency check composed in this call.
Composed ==
    (IF exc = ExcMismatch THEN {exc_detail} ELSE {}) \cup Range(warned)

FailedFiles == { Reads[i].file : i \in { j \in 1..Len(Reads) : ~Reads[j].ok } }

C9_ReferenceIsFirstLoaded ==
    FolderLoad =>
        \A m \in Composed :
            /\ Loaded # <<>>
            /\ m.reference_file = Loaded[1].file
            /\ m.reference_columns = Loaded[1].df.columns
            /\ m.reference_file \notin FailedFiles
            /\ \A k \in 1..Len(m.issues) :
                 /\ m.issues[k].file \notin FailedFiles
                 /\ m.issues[k].file # m.reference_file
                 /\ "expected_columns" \in DOMAIN m.issues[k] =>
                      m.issues[k].expected_columns = Loaded[1].df.columns
                 /\ m.issues[k].issue[1] = "Column count mismatch" =>
                      m.issues[k].issue[3] = Len(Loaded[1].df.columns)

C9_Witness ==
    /\ FolderLoad /\ exc = ExcMismatch
    /\ Len(Reads) = 3 /\ ~Reads[1].ok /\ Reads[2].ok /\ Reads[3].ok
    /\ exc_detail.reference_file = Reads[2].file
    /\ Len(exc_detail.issues) = 1
    /\ "expected_columns" \in DOMAIN exc_detail.issues[1]

(***************************************************************************)
(* C10: in every message the consistency check composed, the issues are    *)
(* those of the loaded files after the first, in discovery order, at most  *)
(* one per file: a file with another number of columns has "Column count   *)
(* mismatch: actual vs expected" with its own columns and no expected      *)
(* columns; a file with as many columns but another name sequence has      *)
(* "Column names mismatch" with its own and the expected columns; a file   *)
(* with the same sequence has none.  When the check composed no message,   *)
(* no loaded file differed from the first.                                 *)
(***************************************************************************)
\* Places among the loaded files of those that differ from the first.
Differing == { k \in 2..Len(Loaded) : ColumnsOf(k) # ColumnsOf(1) }

\* The place of the n-th differing file.
NthDiffering(n) ==
    CHOOSE k \in Differing : Cardinality({ j \in Differing : j < k }) = n - 1

IssueFor(k) ==
    IF Len(ColumnsOf(k)) # Len(ColumnsOf(1))
    THEN [file |-> Loaded[k].file,
          issue |-> <<"Column count mismatch", Len(ColumnsOf(k)), Len(ColumnsOf(1))>>,
          actual_columns |-> ColumnsOf(k)]
    ELSE [file |-> Loaded[k].file,
          issue |-> <<"Column names mismatch">>,
          expected_columns |-> ColumnsOf(1),
          actual_columns |-> ColumnsOf(k)]

C10_IssuePerFile ==
    FolderLoad =>
        /\ \A m \in Composed :
             /\ Len(m.issues) = Cardinality(Differing)
             /\ \A n \in 1..Len(m.issues) : m.issues[n] = IssueFor(NthDiffering(n))
        /\ (Called("check") /\ Composed = {}) => Differing = {}

C10_Witness ==
    /\ FolderLoad /\ column_consistency = "warning" /\ Len(warned) = 1
    /\ Len(Loaded) = 3
    /\ Len(warned[1].issues) = 2
    /\ warned[1].issues[1].issue = <<"Column names mismatch">>
    /\ warned[1].issues[2].issue = <<"Column count mismatch", 1, 2>>
    /\ "expected_columns" \notin DOMAIN warned[1].issues[2]
    /\ warned[1].issues[1].expected_columns = <<"a", "b">>
    /\ warned[1].issues[1].actual_columns = <<"a", "B">>


(***************************************************************************)
(* C11: when the loaded files of a folder load all have the same ordered   *)
(* column names (one loaded file included), the consistency check composes *)
(* no message and raises no mismatch error, the load ends returning a      *)
(* table, and that table has as many columns as each file, no name twice.  *)
(***************************************************************************)
C11_IdenticalSchemas ==
    (FolderLoad /\ Loaded # <<>> /\ ~Mismatched) =>
        /\ Composed = {}
        /\ exc # ExcMismatch
        /\ Finished => pc = "returned"
        /\ pc = "returned" =>
             /\ \A k \in 1..Len(Loaded) :
                  Len(combined_df.columns) = Len(ColumnsOf(k))
             /\ \A q, r \in 1..Len(combined_df.columns) :
                  q # r => combined_df.columns[q] # combined_df.columns[r]

C11_Witness ==
    /\ FolderLoad /\ pc = "returned" /\ ~Mismatched
    /\ column_consistency = "error"
    /\ Called("check")
    /\ Len(Loaded) = 3
    /\ Len(combined_df.columns) = 2

(***************************************************************************)
(* C12: once load() has classified the path, exactly one of four things    *)
(* has happened: a missing path raised FileNotFoundError with nothing      *)
(* read; a regular file went to the single-file load; a directory went to  *)
(* the folder load; anything else raised the "neither a file nor a         *)
(* directory" ValueError.                                                  *)
(***************************************************************************)
Classified == pc \notin {"new", "constructed"} /\ exc # ExcInvalidConfig

TookNotFound == pc = "failed" /\ exc = ExcNotFound
TookInvalidPath == pc = "failed" /\ exc = ExcInvalidPath
TookSingleFile ==
    /\ pc \in {"single", "returned", "failed"}
    /\ exc \in {NoExc, ExcReader, ExcUnsupported}
    /\ files = <<>> /\ pos = 0 /\ ~Called("check") /\ ~Called("concat")
    /\ Len(trace) <= 1
TookFolder ==
    /\ pc \in {"folder", "loop_ignore", "loop_check", "check", "concat",
               "returned", "failed"}
    /\ exc \in {NoExc, ExcNoSupported, ExcNoLoadable, ExcMismatch}
    /\ \A i \in 1..Len(trace) : trace[i].file # 0 \/ trace[i].op # "read"

C12_PathClassification ==
    Classified =>
        /\ file_path.kind = "missing" =>
             TookNotFound /\ trace = <<>> /\ combined_df = NoDF
        /\ file_path.kind = "file" => TookSingleFile
        /\ file_path.kind = "dir" => TookFolder
        /\ file_path.kind = "other" => TookInvalidPath /\ trace = <<>>
        /\ TookNotFound => file_path.kind = "missing"
        /\ TookInvalidPath => file_path.kind = "other"

C12_Witness ==
    /\ Classified
    /\ file_path.kind = "other"
    /\ TookInvalidPath

(***************************************************************************)
(* C13: a constructor given a column_consistency outside 'error',          *)
(* 'warning', 'ignore' has raised the "column_consistency must be one of"  *)
(* ValueError, whatever the path is (a missing path included), with        *)
(* nothing of load() done; and every loader that got past construction     *)
(* holds one of the three values, the one it was given.                    *)
(***************************************************************************)
C13_InvalidPolicyAtConstruction ==
    pc # "new" =>
        /\ column_consistency_arg \notin {"error", "warning", "ignore"} =>
             /\ pc = "failed" /\ exc = ExcInvalidConfig
             /\ column_consistency = "unset"
             /\ trace = <<>> /\ files = <<>> /\ out = <<>>
             /\ combined_df = NoDF
        /\ column_consistency_arg \in {"error", "warning", "ignore"} =>
             /\ column_consistency = column_consistency_arg
             /\ exc # ExcInvalidConfig
        /\ exc # ExcInvalidConfig =>
             column_consistency \in {"error", "warning", "ignore"}

C13_Witness ==
    /\ pc = "failed" /\ exc = ExcInvalidConfig
    /\ column_consistency_arg = "invalid"
    /\ file_path.kind = "missing"


(***************************************************************************)
(* C14, as stated: a folder load of a loader with verbose off emits        *)
(* nothing: nothing printed and no warning issued.                         *)
(***************************************************************************)
C14_Original ==
    (FolderLoad /\ ~verbose) => out = <<>> /\ warned = <<>>

(***************************************************************************)
(* C14, amended: a folder load of a loader with verbose off prints         *)
(* nothing; the one thing it can still emit is the warnings.warn of the    *)
(* consistency check, once, under 'warning' with mismatched loaded files.  *)
(***************************************************************************)
C14_SilentUnlessVerbose ==
    (FolderLoad /\ ~verbose) =>
        /\ out = <<>>
        /\ warned # <<>> =>
             /\ column_consistency = "warning"
             /\ Mismatched
             /\ Len(warned) = 1

C14_Witness ==
    /\ FolderLoad /\ ~verbose /\ pc = "returned"
    /\ column_consistency = "warning"
    /\ Len(Reads) = 3 /\ ~Reads[2].ok
    /\ Len(warned) = 1
    /\ out = <<>>

(***************************************************************************)
(* C15: the data files a folder load discovered are exactly the regular    *)
(* files of the tree whose suffix is .csv, .xlsx or .xls in any case:      *)
(* the direct children only with include_subfolders off, those of the      *)
(* whole tree with it on, in listing order and each once; never a          *)
(* directory or another suffix; so what is found with it on includes what  *)
(* is found with it off.                                                   *)
(***************************************************************************)
SupportedFiles == { i \in 1..Len(fs) : fs[i].is_file /\ SupportedSuffix(fs[i].suffix) }
DirectSupportedFiles == { i \in SupportedFiles : fs[i].depth = 1 }

DataFileNames == { data_files[i].name : i \in 1..Len(data_files) }

C15_Discovery ==
    (FolderLoad /\ pc # "folder") =>
        /\ ~include_subfolders => DataFileNames = DirectSupportedFiles
        /\ include_subfolders => DataFileNames = SupportedFiles
        /\ DirectSupportedFiles \subseteq DataFileNames
        /\ \A i, j \in 1..Len(data_files) :
             i < j => data_files[i].name < data_files[j].name
        /\ \A i \in 1..Len(data_files) :
             /\ data_files[i].is_file
             /\ data_files[i].suffix = fs[data_files[i].name].suffix
             /\ data_files[i].suffix \notin {".txt", ""}

C15_Witness ==
    /\ FolderLoad /\ pc # "folder"
    /\ include_subfolders
    /\ Len(fs) = 3
    /\ ~fs[1].is_file
    /\ fs[2].depth = 2 /\ fs[2].suffix = ".XLSX"
    /\ fs[3].suffix = ".txt"
    /\ DataFileNames = {2}

(***************************************************************************)
(* C16: every step of a folder load that calls out appends one call: a     *)
(* read is of the next data file in discovery order and comes while no     *)
(* check or concat has been called; the consistency check and pd.concat    *)
(* are called only after every data file has been read, once each; and     *)
(* the mismatch error is raised only after every data file has been read.  *)
(***************************************************************************)
AllReads(t) == \A i \in 1..Len(t) : t[i].op = "read"

C16_SequentialLoads ==
    [][ FolderLoad' =>
          /\ \/ trace' = trace
             \/ /\ Len(trace') = Len(trace) + 1
                /\ SubSeq(trace', 1, Len(trace)) = trace
                /\ LET e == trace'[Len(trace')]
                   IN  /\ e.op = "read" =>
                            /\ AllReads(trace)
                            /\ Len(trace) < Len(data_files)
                            /\ e.file = data_files[Len(trace) + 1].name
                       /\ e.op = "check" =>
                            /\ AllReads(trace)
                            /\ Len(trace) = Len(data_files)
                            /\ column_consistency \in {"error", "warning"}
                       /\ e.op = "concat" =>
                            /\ Len(Reads) = Len(data_files)
                            /\ AllReads(SubSeq(trace, 1, Len(data_files)))
                            /\ Len(trace) = Len(data_files)
                                 + (IF column_consistency = "ignore" THEN 0 ELSE 1)
          /\ exc' = ExcMismatch => Len(Reads') = Len(data_files')
      ]_vars

C16_Witness ==
    /\ FolderLoad /\ column_consistency = "error"
    /\ pc = "failed" /\ exc = ExcMismatch
    /\ Len(data_files) = 3 /\ Len(Reads) = 3
    /\ Reads[1].ok /\ Reads[2].ok /\ Reads[3].ok
    /\ Reads[1].df.columns # Reads[2].df.columns
    /\ trace[4].op = "check"

(***************************************************************************)
(* C17: when the loaded files of a folder load all have the same ordered   *)
(* column names (one loaded file included), the load ends returning, under *)
(* 'error', 'warning' and 'ignore' alike, the table with the files'        *)
(* columns, their rows file after file, and the index 0..n-1; it raises    *)
(* no mismatch error and issues no mismatch warning.                       *)
(***************************************************************************)
\* The loaded file the i-th row of the merged table comes from.
FileOfRow(i) ==
    CHOOSE k \in 1..Len(Loaded) :
        Offset(k) < i /\ i <= Offset(k) + Len(Loaded[k].df.rows)

SameSchemaTable ==
    [columns |-> ColumnsOf(1),
     index |-> [i \in 1..SumRows(Loaded) |-> i - 1],
     rows |-> [i \in 1..SumRows(Loaded) |->
                 Loaded[FileOfRow(i)].df.rows[i - Offset(FileOfRow(i))]]]

C17_PolicyIrrelevantWithoutMismatch ==
    (FolderLoad /\ Finished /\ Loaded # <<>> /\ ~Mismatched) =>
        /\ pc = "returned" /\ exc = NoExc
        /\ combined_df = SameSchemaTable
        /\ warned = <<>>
        /\ \A i \in 1..Len(out) : ~IsWarningPrint(out[i])

C17_Witness ==
    /\ FolderLoad /\ pc = "returned" /\ ~Mismatched
    /\ column_consistency = "warning"
    /\ Len(Loaded) = 2 /\ Len(Reads) = 3
    /\ Len(combined_df.rows) = 4
    /\ combined_df = SameSchemaTable

====
